---- MODULE Spec2Model ----
(***************************************************************************)
(* A model of the pull-request crawler (crawler.py): the driver loop of    *)
(* main, Crawler.crawl, Crawler._get / _try_to_get, the SIGINT handler     *)
(* installed by Crawler.__init__, and the files written by _save_json.     *)
(***************************************************************************)
EXTENDS Integers, Sequences, FiniteSets, TLC

(***************************************************************************)
(* Bounds of the model.                                                    *)
(***************************************************************************)
MaxPulls == 2
MaxRepos == 2
MaxPerPage == 2
MaxTries == 2
MaxStartPage == 1
MaxRetryWait == 0
MaxResetLag == 2
MaxResetLead == 0
MaxSignals == 2
MaxSegs == 3

(***************************************************************************)
(* Nullable values (Python None): the empty sequence is None, a one        *)
(* element sequence is a present value.                                    *)
(***************************************************************************)
None == <<>>
Some(x) == <<x>>

(***************************************************************************)
(* Pull bodies are texts cut into lexical items: a run of letters, a run   *)
(* of whitespace, a punctuation character, a run of digits, or one of the  *)
(* reference prefixes the pattern of line 23 names ("url" is               *)
(* https://github.com/OWNER/REPO/issues/, "short" is OWNER/REPO#, "hash"   *)
(* is #) or the host-less path OWNER/REPO/issues/ ("path").  A prefix      *)
(* carries the OWNER/REPO text it was written with.                        *)
(***************************************************************************)
Word(s) == [t |-> "word", s |-> s, n |-> 0]
Ws == [t |-> "ws", s |-> " ", n |-> 0]
Punct(s) == [t |-> "punct", s |-> s, n |-> 0]
Num(n) == [t |-> "num", s |-> "", n |-> n]
Ref(form, name) == [t |-> form, s |-> name, n |-> 0]

\* The pattern compiled without re.IGNORECASE: texts compared as written.
LowerAsWritten(s) == s

\* str.lower() on the texts the model uses (re.IGNORECASE compares these).
Lower(s) ==
    CASE s = "Fixes" -> "fixes"
      [] s = "Owner/Repo" -> "owner/repo"
      [] s = "FIXES" -> "fixes"
      [] s = "Closes" -> "closes"
      [] s = "See" -> "see"
      [] s = "R1" -> "r1"
      [] s = "R2" -> "r2"
      [] OTHER -> s

\* The alternation of closing keywords in _linked_issues_pattern_template.
Keywords ==
    {"close", "closes", "closed", "fix", "fixes", "fixed",
     "resolve", "resolves", "resolved"}

\* A word character (\w) ends item a / starts item a: \b needs the opposite.
IsWordItem(a) == a.t \in {"word", "num"}

\* _make_linked_issues_regex: the pattern compiled for one repository, as
\* the predicate "a match of the pattern starts at item i of body b".
_make_linked_issues_regex(repo, b, i) ==
    /\ i + 3 <= Len(b)
    /\ b[i].t = "word" /\ Lower(b[i].s) \in Keywords
    /\ (i > 1 => ~IsWordItem(b[i - 1]))
    /\ b[i + 1].t = "ws"
    /\ \/ b[i + 2].t = "hash"
       \/ b[i + 2].t \in {"url", "short"} /\ Lower(b[i + 2].s) = Lower(repo)
    /\ b[i + 3].t = "num"
    /\ (i + 4 <= Len(b) => ~IsWordItem(b[i + 4]))

RECURSIVE FindAllUnique(_, _, _)
\* findall followed by the removal of numbers that occur again later.
FindAllUnique(repo, b, i) ==
    IF i > Len(b) THEN <<>>
    ELSE IF _make_linked_issues_regex(repo, b, i)
         THEN LET rest == FindAllUnique(repo, b, i + 4)
              IN  IF \E k \in 1..Len(rest) : rest[k] = b[i + 3].n
                  THEN rest
                  ELSE <<b[i + 3].n>> \o rest
         ELSE FindAllUnique(repo, b, i + 1)

RECURSIVE FindAll(_, _, _)
\* regex.findall: the captured numbers of the matches, left to right.
FindAll(repo, b, i) ==
    IF i > Len(b) THEN <<>>
    ELSE IF _make_linked_issues_regex(repo, b, i)
         THEN <<b[i + 3].n>> \o FindAll(repo, b, i + 4)
         ELSE FindAll(repo, b, i + 1)

\* _extract_linked_issue_numbers(pull_body, linked_issues_regex)
_extract_linked_issue_numbers(pull_body, repo) ==
    IF pull_body = None THEN <<>> ELSE FindAll(repo, pull_body[1], 1)

(***************************************************************************)
(* The bodies the servers of the model hold.                               *)
(***************************************************************************)
BodySee1 == Some(<<Word("See"), Ws, Ref("hash", ""), Num(1)>>)
BodyFix1 == Some(<<Word("Fixes"), Ws, Ref("hash", ""), Num(1)>>)
BodyFix21 ==
    Some(<<Word("closes"), Ws, Ref("short", "R1"), Num(2), Punct(","), Ws,
           Word("FIXES"), Ws, Ref("hash", ""), Num(1)>>)
BodyFix11 ==
    Some(<<Word("fixes"), Ws, Ref("hash", ""), Num(1), Ws, Word("and"), Ws,
           Word("fix"), Ws, Ref("hash", ""), Num(1)>>)

\* "<kw> #12 and owner/repo#34, see Owner/Repo/issues/56"
ExampleBody(kw) ==
    Some(<<Word(kw), Ws, Ref("hash", ""), Num(12), Ws, Word("and"), Ws,
           Ref("short", "owner/repo"), Num(34), Punct(","), Ws,
           Word("see"), Ws, Ref("path", "Owner/Repo"), Num(56)>>)
ExampleBodies == { ExampleBody(kw) : kw \in {"Fixes", "fixes", "FIXES"} }

\* Pieces of text a body is put together from: references after a closing
\* keyword in the three forms, to this or to another repository, and a
\* reference after a word that is no keyword.
Segments ==
    { <<Word("fixes"), Ws, Ref("hash", ""), Num(1)>>,
      <<Word("fixes"), Ws, Ref("hash", ""), Num(2)>>,
      <<Word("Fixes"), Ws, Ref("short", "r1"), Num(2)>>,
      <<Word("resolved"), Ws, Ref("url", "r1"), Num(1)>>,
      <<Word("closes"), Ws, Ref("url", "r2"), Num(3)>>,
      <<Word("See"), Ws, Ref("hash", ""), Num(1)>> }

RECURSIVE JoinSegs(_, _)
\* The segments f[k..] written one after the other, a blank between them.
JoinSegs(f, k) ==
    IF k > Len(f) THEN <<>>
    ELSE IF k = Len(f) THEN f[k]
    ELSE f[k] \o <<Ws>> \o JoinSegs(f, k + 1)

\* The values p.get('body') takes: null, or a text of up to n segments.
Bodies(n) ==
    {None} \cup ExampleBodies
    \cup UNION { { Some(JoinSegs(f, 1)) : f \in [1..k -> Segments] } : k \in 0..n }

\* (merged_at, body) of the pull summaries a repository may hold.
PullKinds ==
    { <<None, BodyFix1>>, <<Some(1), None>>, <<Some(1), BodySee1>>,
      <<Some(1), BodyFix1>>, <<Some(1), BodyFix21>> }

\* A repository's closed pulls in creation order; the i-th has number i.
PullLists(n) ==
    UNION { { [i \in 1..k |->
                 [number |-> i, merged_at |-> f[i][1], body |-> f[i][2]]] :
              f \in [1..k -> PullKinds] } : k \in 0..n }

RepoNames == <<"r1", "r2", "r3", "r4">>

(***************************************************************************)
(* Requests, responses, files.                                             *)
(***************************************************************************)
\* The three URL templates of lines 14-16, for the repository being crawled.
PullsUrl(page) == [kind |-> "pulls", n |-> page]
PullUrl(pull_number) == [kind |-> "pull", n |-> pull_number]
IssueUrl(issue_number) == [kind |-> "issue", n |-> issue_number]
NoUrl == [kind |-> "none", n |-> 0]

\* The path templates of lines 19-21.
_pulls_path_template(repo, page) == [repo |-> repo, kind |-> "pulls-page", n |-> page]
_pull_path_template(repo, pull_number) == [repo |-> repo, kind |-> "pull", n |-> pull_number]
_issue_path_template(repo, issue_number) == [repo |-> repo, kind |-> "issue", n |-> issue_number]

\* Rate-limit headers of a response: X-Ratelimit-Remaining and
\* X-Ratelimit-Reset, each absent or present.  The clock is kept relative:
\* reset is the header's timestamp minus int(time.time()) as line 196 reads
\* it, so a negative reset is a timestamp already in the past.
NoHeaders == [remaining |-> None, reset |-> None]
Exhausted(d) == [remaining |-> Some(0), reset |-> Some(d)]
Headers ==
    {NoHeaders, [remaining |-> Some(1), reset |-> Some(0)],
     [remaining |-> Some(0), reset |-> None]}
    \cup { Exhausted(d) : d \in (0 - MaxResetLag)..MaxResetLead }

\* What one requests.get can produce: "exc" is a transport error (no
\* response), "notok" a response whose status is not successful, "badjson"
\* a successful status whose body does not parse, "message" a successful
\* status whose JSON object carries a message field, "ok" the resource.
Responses ==
    {[kind |-> "exc", headers |-> NoHeaders]}
    \cup { [kind |-> "notok", headers |-> h] : h \in Headers }
    \cup { [kind |-> k, headers |-> h] :
             k \in {"ok", "badjson", "message"}, h \in {NoHeaders, Exhausted(0)} }
NoResponse == [kind |-> "none", headers |-> NoHeaders]

\* The documents written to disk.  A file opened for writing and not yet
\* dumped holds Truncated.
Truncated == [kind |-> "truncated", number |-> 0, linked |-> <<>>, items |-> <<>>]
PullDoc(number, linked) ==
    [kind |-> "pull", number |-> number, linked |-> linked, items |-> <<>>]
IssueDoc(number) ==
    [kind |-> "issue", number |-> number, linked |-> <<>>, items |-> <<>>]
PageDoc(items) ==
    [kind |-> "pulls-page", number |-> 0, linked |-> <<>>, items |-> items]

VARIABLES
    repos,                    \* args.repos
    server,                   \* the closed pulls of each repository
    start_page,               \* args.start_page
    per_page,                 \* Crawler.per_page
    save_pull_pages,          \* Crawler.save_pull_pages
    max_request_tries,        \* Crawler.max_request_tries
    request_retry_wait_secs,  \* Crawler.request_retry_wait_secs
    pc,                       \* where the process is
    ri,                       \* index in repos of the repository being crawled
    page, num_issues, num_pulls,
    interrupted,              \* Crawler._interrupted
    pulls,                    \* the page fetched last
    pulls_issue_numbers,      \* the dict of line 151, in insertion order
    pi, ii,                   \* positions of the loops of lines 160 and 165
    url, tries,               \* _get's argument and counter
    rl_tries,                 \* how many of the counted attempts met an exhausted quota
    ratelimit_wait_secs,
    slept,                    \* seconds slept since the last attempt
    resp,                     \* the response of the failed attempt just made
    returned,                 \* the kind of response whose JSON _get returned last
    files,                    \* the output tree: path -> document
    written,                  \* paths written by the crawl in progress
    seen,                     \* the summaries of the pages it has fetched
    pages_fetched,            \* the numbers of the pages it has fetched
    log,                      \* details fetched and written for the page fetched last
    sig_in_crawl,             \* a stop signal was delivered during it
    sig_lost,                 \* line 148 cleared the flag such a signal set
    outcomes,                 \* how each crawl ended
    failed,                   \* the URL whose get raised last
    exit_status,
    signals,                  \* stop signals delivered so far
    resumed                   \* the start page of the run this one resumes

config == <<repos, server, start_page, per_page, save_pull_pages,
            max_request_tries, request_retry_wait_secs>>
crawl_vars == <<page, num_issues, num_pulls, pulls, pulls_issue_numbers, pi, ii,
                seen, pages_fetched, log>>
get_vars == <<url, tries, rl_tries, ratelimit_wait_secs, resp>>
disk == <<files, written>>
vars == <<config, pc, ri, crawl_vars, interrupted, sig_in_crawl, sig_lost, get_vars, returned, slept,
          disk,
          outcomes, failed, exit_status, signals, resumed>>

\* (owner, repo) of the crawl in progress.
this_repo == repos[ri]

Init ==
    /\ repos \in { SubSeq(RepoNames, 1, k) : k \in 1..MaxRepos }
    /\ server \in [ {repos[k] : k \in 1..Len(repos)} ->
                       PullLists(MaxPulls + 1 - Len(repos)) ]
    /\ start_page \in 1..MaxStartPage
    /\ per_page \in 1..MaxPerPage
    /\ save_pull_pages \in BOOLEAN
    /\ max_request_tries \in 1..MaxTries
    /\ request_retry_wait_secs \in 0..MaxRetryWait
    /\ pc = "main"
    /\ ri = 0
    /\ page = 0 /\ num_issues = 0 /\ num_pulls = 0
    /\ interrupted = FALSE
    /\ pulls = <<>> /\ pulls_issue_numbers = <<>> /\ pi = 0 /\ ii = 0
    /\ url = NoUrl /\ tries = 0 /\ rl_tries = 0 /\ ratelimit_wait_secs = 0
    /\ slept = 0
    /\ resp = NoResponse
    /\ returned = "none"
    /\ files = [q \in {} |-> Truncated]
    /\ written = {}
    /\ seen = <<>>
    /\ pages_fetched = <<>>
    /\ log = <<>>
    /\ sig_in_crawl = FALSE
    /\ sig_lost = FALSE
    /\ outcomes = <<>>
    /\ failed = NoUrl
    /\ exit_status = None
    /\ signals = 0
    /\ resumed = None

(***************************************************************************)
(* The server: what a successful request returns.                          *)
(***************************************************************************)
Min(a, b) == IF a < b THEN a ELSE b

\* GET .../pulls?state=closed&sort=created&direction=asc&per_page=&page=
PullsPage(all, pp, p) == SubSeq(all, (p - 1) * pp + 1, Min(p * pp, Len(all)))

(***************************************************************************)
(* crawl, lines 151-157: the dict pulls_issue_numbers of one page.         *)
(***************************************************************************)
\* A dict that iterates from the newest key to the oldest.
DictPutFront(d, k, v) ==
    IF \E j \in 1..Len(d) : d[j][1] = k
    THEN [j \in 1..Len(d) |-> IF d[j][1] = k THEN <<k, v>> ELSE d[j]]
    ELSE <<<<k, v>>>> \o d

\* d[k] = v on a dict kept as a sequence of <<key, value>> in insertion order.
DictPut(d, k, v) ==
    IF \E j \in 1..Len(d) : d[j][1] = k
    THEN [j \in 1..Len(d) |-> IF d[j][1] = k THEN <<k, v>> ELSE d[j]]
    ELSE Append(d, <<k, v>>)

\* Line 154 with "or" for "and".
QualifiesEither(p, linked_issue_numbers) ==
    linked_issue_numbers # <<>> \/ p.merged_at # None

\* The test of line 154.
Qualifies(p, linked_issue_numbers) ==
    linked_issue_numbers # <<>> /\ p.merged_at # None

RECURSIVE Filter(_, _, _, _)
\* The loop of lines 152-155 over the items of the page from item i on,
\* d being the dict built so far.
Filter(rp, ps, i, d) ==
    IF i > Len(ps) THEN d
    ELSE LET linked_issue_numbers == _extract_linked_issue_numbers(ps[i].body, rp)
         IN  Filter(rp, ps, i + 1,
                    IF Qualifies(ps[i], linked_issue_numbers)
                    THEN DictPut(d, ps[i].number, linked_issue_numbers)
                    ELSE d)

\* Lines 156-157: every item of the page with its linked_issue_numbers.
Annotated(rp, ps) ==
    [i \in 1..Len(ps) |->
        [number |-> ps[i].number, merged_at |-> ps[i].merged_at,
         body |-> ps[i].body,
         linked_issue_numbers |-> _extract_linked_issue_numbers(ps[i].body, rp)]]

\* _save_json, line 37: open(path, 'w') creates or truncates the file.
Open(f, path) == [q \in DOMAIN f \cup {path} |-> IF q = path THEN Truncated ELSE f[q]]
\* _save_json, line 38: json.dump, and the close that ends the with block.
Dump(f, path, obj) == [q \in DOMAIN f \cup {path} |-> IF q = path THEN obj ELSE f[q]]

(***************************************************************************)
(* The process.  pc is one of                                              *)
(*   "main"         the for loop of main, line 263                         *)
(*   "setup"        crawl entered, lines 141-148 not yet run               *)
(*   "loop"         the while test of line 149                             *)
(*   "get"          _try_to_get about to call requests.get, line 192       *)
(*   "rl_sleep"     the sleep of line 199                                  *)
(*   "retry_sleep"  the sleep of line 188                                  *)
(*   "save"         _save_json about to open the file, line 37             *)
(*   "dump"         _save_json about to dump into the open file, line 38   *)
(*   "page_done"    lines 169-175                                          *)
(*   "done"         main returned (exit status 0)                          *)
(*   "exited"       sys.exit(2) in the signal handler                      *)
(***************************************************************************)
Alive == pc \notin {"done", "exited"}
\* crawl has been entered and has not returned or raised.
InCrawl ==
    pc \in {"setup", "loop", "get", "rl_sleep", "retry_sleep", "save", "dump",
            "page_done"}

\* The page saved after filtering: only the items kept by line 154.
SaveObjFiltered(u) ==
    CASE u.kind = "pulls" ->
            PageDoc(Annotated(this_repo,
                SelectSeq(pulls,
                    LAMBDA p : Qualifies(p,
                        _extract_linked_issue_numbers(p.body, this_repo)))))
      [] u.kind = "pull" -> PullDoc(u.n, pulls_issue_numbers[pi][2])
      [] u.kind = "issue" -> IssueDoc(u.n)

\* The object and path of the _save_json call that follows the get of u.
SavePath(u) ==
    CASE u.kind = "pulls" -> _pulls_path_template(this_repo, u.n)
      [] u.kind = "pull" -> _pull_path_template(this_repo, u.n)
      [] u.kind = "issue" -> _issue_path_template(this_repo, u.n)
SaveObj(u) ==
    CASE u.kind = "pulls" -> PageDoc(Annotated(this_repo, pulls))
      [] u.kind = "pull" -> PullDoc(u.n, pulls_issue_numbers[pi][2])
      [] u.kind = "issue" -> IssueDoc(u.n)

\* self._get(url) is called: tries = 0, then the first attempt.
CallGet(u) ==
    /\ pc' = "get"
    /\ url' = u
    /\ tries' = 0
    /\ rl_tries' = 0
    /\ UNCHANGED ratelimit_wait_secs

\* main without the try/except of lines 267-271: the raise of line 186 ends
\* the process.
EndCrawlUncaught(how) ==
    /\ pc' = IF how = "raised" THEN "exited" ELSE "main"
    /\ outcomes' = Append(outcomes, how)

\* crawl ends: return (line 174, or the while test failing) or the raise of
\* line 186 reaching main's handler, lines 269-271.  Back in main's loop.
EndCrawl(how) ==
    /\ pc' = "main"
    /\ outcomes' = Append(outcomes, how)

\* The handler with sys.exit(1) at line 112.
sigint_handler_exit1 ==
    /\ Alive
    /\ signals < MaxSignals
    /\ signals' = signals + 1
    /\ sig_in_crawl' = (sig_in_crawl \/ InCrawl)
    /\ IF interrupted
       THEN /\ pc' = "exited"
            /\ exit_status' = Some(1)
            /\ UNCHANGED interrupted
       ELSE /\ interrupted' = TRUE
            /\ UNCHANGED <<pc, exit_status>>
    /\ UNCHANGED <<config, ri, crawl_vars, get_vars, slept, disk, outcomes,
                   failed, sig_lost, returned, resumed>>

\* The handler raising an ordinary Exception at line 112: main's handler
\* (line 269) catches it and goes on to the next repository.
sigint_handler_caught ==
    /\ Alive
    /\ signals < MaxSignals
    /\ signals' = signals + 1
    /\ sig_in_crawl' = (sig_in_crawl \/ InCrawl)
    /\ IF interrupted
       THEN /\ pc' = IF InCrawl THEN "main" ELSE "exited"
            /\ exit_status' = IF InCrawl THEN exit_status ELSE Some(2)
            /\ UNCHANGED interrupted
       ELSE /\ interrupted' = TRUE
            /\ UNCHANGED <<pc, exit_status>>
    /\ UNCHANGED <<config, ri, crawl_vars, get_vars, slept, disk, outcomes,
                   failed, sig_lost, returned, resumed>>

\* The SIGINT handler, lines 109-114.
sigint_handler ==
    /\ Alive
    /\ signals < MaxSignals
    /\ signals' = signals + 1
    /\ sig_in_crawl' = (sig_in_crawl \/ InCrawl)
    /\ IF interrupted
       THEN /\ pc' = "exited"
            /\ exit_status' = Some(2)
            /\ UNCHANGED interrupted
       ELSE /\ interrupted' = TRUE
            /\ UNCHANGED <<pc, exit_status>>
    /\ UNCHANGED <<config, ri, crawl_vars, get_vars, slept, disk, outcomes,
                   failed, sig_lost, returned, resumed>>

\* main, lines 263-268: the next repository's crawl is called, or main ends.
Main ==
    /\ pc = "main"
    /\ IF ri < Len(repos)
       THEN /\ ri' = ri + 1
            /\ pc' = "setup"
            /\ UNCHANGED exit_status
       ELSE /\ pc' = "done"
            /\ exit_status' = Some(0)
            /\ UNCHANGED ri
    /\ resp' = NoResponse
    /\ sig_in_crawl' = FALSE
    /\ UNCHANGED <<config, crawl_vars, interrupted, url, tries, rl_tries,
                   ratelimit_wait_secs, slept, disk, outcomes, failed, signals, sig_lost, returned, resumed>>

\* crawl, lines 141-147, without the self._interrupted = False of line 148.
CrawlSetupKeepFlag ==
    /\ pc = "setup"
    /\ page' = start_page
    /\ num_issues' = 0
    /\ num_pulls' = 0
    /\ UNCHANGED interrupted
    /\ pulls' = <<>> /\ pulls_issue_numbers' = <<>> /\ pi' = 0 /\ ii' = 0
    /\ seen' = <<>>
    /\ pages_fetched' = <<>>
    /\ log' = <<>>
    /\ written' = {}
    /\ pc' = "loop"
    /\ failed' = NoUrl
    /\ sig_lost' = (sig_lost \/ (interrupted /\ sig_in_crawl))
    /\ UNCHANGED <<config, ri, sig_in_crawl, get_vars, slept, files, outcomes,
                   exit_status, signals, returned, resumed>>

\* crawl, lines 141-148.
CrawlSetup ==
    /\ pc = "setup"
    /\ page' = start_page
    /\ num_issues' = 0
    /\ num_pulls' = 0
    /\ interrupted' = FALSE
    /\ pulls' = <<>> /\ pulls_issue_numbers' = <<>> /\ pi' = 0 /\ ii' = 0
    /\ seen' = <<>>
    /\ pages_fetched' = <<>>
    /\ log' = <<>>
    /\ written' = {}
    /\ pc' = "loop"
    /\ failed' = NoUrl
    /\ sig_lost' = (sig_lost \/ (interrupted /\ sig_in_crawl))
    /\ UNCHANGED <<config, ri, sig_in_crawl, get_vars, slept, files, outcomes,
                   exit_status, signals, returned, resumed>>

\* crawl, lines 149-150: the while test, then the request of the page.
LoopCheck ==
    /\ pc = "loop"
    /\ IF interrupted
       THEN /\ EndCrawl("stopped")
            /\ UNCHANGED <<url, tries, rl_tries, ratelimit_wait_secs>>
       ELSE /\ CallGet(PullsUrl(page))
            /\ UNCHANGED outcomes
    /\ UNCHANGED <<config, ri, crawl_vars, interrupted, sig_in_crawl, resp, slept, disk,
                   failed, exit_status, signals, sig_lost, returned, resumed>>

\* Line 195: the test of the rate-limit branch.
RateLimited(r) ==
    /\ r.headers.remaining # None
    /\ r.headers.remaining[1] < 1
    /\ r.headers.reset # None

\* Lines 193, 202-208 with line 195: a response that is a failure and carries a remaining
\* quota of zero and a reset timestamp.
FailedExhausted(r) ==
    /\ r.kind \in {"notok", "badjson", "message"}
    /\ RateLimited(r)

\* Line 196: int(X-Ratelimit-Reset) - int(time.time()) + 1.
WaitSecs(r) == r.headers.reset[1] + 1

\* _try_to_get without the test of lines 206-208: an object carrying a
\* message field is returned like any other JSON value.
_try_to_get_envelope(r) ==
    CASE r.kind = "exc" -> "none"
      [] r.kind = "notok" ->
            IF RateLimited(r) /\ WaitSecs(r) >= 0 THEN "sleep" ELSE "none"
      [] r.kind = "badjson" -> "none"
      [] r.kind = "message" -> "json"
      [] r.kind = "ok" -> "json"

\* One pass through _try_to_get, lines 191-209, on response r: "json"
\* (line 209), "sleep" (line 199, then the call of line 200) or "none"
\* (lines 201, 205, 208).  time.sleep raises ValueError on a negative
\* length, inside the try block: line 205 returns None.
_try_to_get(r) ==
    CASE r.kind = "exc" -> "none"
      [] r.kind = "notok" ->
            IF RateLimited(r) /\ WaitSecs(r) >= 0 THEN "sleep" ELSE "none"
      [] r.kind = "badjson" -> "none"
      [] r.kind = "message" -> "none"
      [] r.kind = "ok" -> "json"

\* Line 184: the test that ends _get with TooManyRequestFailures.
TooMany(t) == t >= max_request_tries

\* The loop of line 160 without the inner loop of lines 165-168: no issue
\* is fetched.
AdvancePullsOnly(d, p, i) ==
    IF p < Len(d)
    THEN /\ pi' = p + 1 /\ ii' = 0
         /\ CallGet(PullUrl(d[p + 1][1]))
    ELSE /\ pi' = 0 /\ ii' = 0
         /\ pc' = "page_done"
         /\ UNCHANGED <<url, tries, rl_tries, ratelimit_wait_secs>>

\* The loops of lines 160 and 165 with the interrupted flag tested inside
\* them: a set flag abandons the rest of the page.
AdvanceUnlessInterrupted(d, p, i) ==
    IF ~interrupted /\ p >= 1 /\ i < Len(d[p][2])
    THEN /\ pi' = p /\ ii' = i + 1
         /\ CallGet(IssueUrl(d[p][2][i + 1]))
    ELSE IF ~interrupted /\ p < Len(d)
    THEN /\ pi' = p + 1 /\ ii' = 0
         /\ CallGet(PullUrl(d[p + 1][1]))
    ELSE /\ pi' = 0 /\ ii' = 0
         /\ pc' = "page_done"
         /\ UNCHANGED <<url, tries, rl_tries, ratelimit_wait_secs>>

\* The loops of lines 160 and 165 move on from issue i of pull p of dict d
\* (p = 0: before the first pull; i = 0: before the pull's first issue):
\* the next _get, or the end of the page.
Advance(d, p, i) ==
    IF p >= 1 /\ i < Len(d[p][2])
    THEN /\ pi' = p /\ ii' = i + 1
         /\ CallGet(IssueUrl(d[p][2][i + 1]))
    ELSE IF p < Len(d)
    THEN /\ pi' = p + 1 /\ ii' = 0
         /\ CallGet(PullUrl(d[p + 1][1]))
    ELSE /\ pi' = 0 /\ ii' = 0
         /\ pc' = "page_done"
         /\ UNCHANGED <<url, tries, rl_tries, ratelimit_wait_secs>>

\* _get returned the page of line 150; lines 151-158.
GotPage ==
    LET got == PullsPage(server[this_repo], per_page, page)
        d == Filter(this_repo, got, 1, <<>>)
    IN  /\ pulls' = got
        /\ pulls_issue_numbers' = d
        /\ seen' = seen \o got
        /\ pages_fetched' = Append(pages_fetched, page)
        /\ log' = <<>>
        /\ IF save_pull_pages
           THEN /\ pc' = "save"
                /\ pi' = 0 /\ ii' = 0
                /\ tries' = 0
                /\ rl_tries' = 0
                /\ UNCHANGED <<url, ratelimit_wait_secs>>
           ELSE Advance(d, 0, 0)
        /\ UNCHANGED <<page, num_issues, num_pulls>>

\* _get returned a pull (line 161) or an issue (line 166): saved next.
GotDetail ==
    /\ pc' = "save"
    /\ tries' = 0
    /\ rl_tries' = 0
    /\ log' = Append(log, <<"got", url>>)
    /\ UNCHANGED <<page, num_issues, num_pulls, pulls, pulls_issue_numbers,
                   pi, ii, seen, pages_fetched, url, ratelimit_wait_secs>>

\* One attempt of _get: _try_to_get (line 180) on what requests.get
\* produces, then lines 181-187.
Request ==
    /\ pc = "get"
    /\ \E r \in Responses :
          LET o == _try_to_get(r) IN
          CASE o = "json" ->
                 /\ resp' = NoResponse
                 /\ returned' = r.kind
                 /\ IF url.kind = "pulls" THEN GotPage ELSE GotDetail
                 /\ UNCHANGED <<outcomes, failed>>
            [] o = "sleep" ->
                 /\ resp' = r
                 /\ ratelimit_wait_secs' = WaitSecs(r)
                 /\ pc' = "rl_sleep"
                 /\ UNCHANGED <<crawl_vars, url, tries, rl_tries, returned, outcomes, failed>>
            [] o = "none" ->
                 /\ resp' = r
                 /\ tries' = tries + 1
                 /\ rl_tries' = rl_tries + (IF FailedExhausted(r) THEN 1 ELSE 0)
                 /\ IF TooMany(tries + 1)
                    THEN /\ EndCrawl("raised")
                         /\ failed' = url
                    ELSE /\ pc' = "retry_sleep"
                         /\ UNCHANGED <<outcomes, failed>>
                 /\ UNCHANGED <<crawl_vars, url, ratelimit_wait_secs, returned>>
    /\ slept' = 0
    /\ UNCHANGED <<config, ri, interrupted, sig_in_crawl, disk, exit_status, signals, sig_lost, resumed>>

\* Lines 199-200: the rate-limit sleep, then the same request again.
RateLimitSleep ==
    /\ pc = "rl_sleep"
    /\ slept' = ratelimit_wait_secs
    /\ ratelimit_wait_secs' = 0
    /\ resp' = NoResponse
    /\ pc' = "get"
    /\ UNCHANGED <<config, ri, crawl_vars, interrupted, sig_in_crawl, url, tries, rl_tries, disk,
                   outcomes, failed, exit_status, signals, sig_lost, returned, resumed>>

\* Line 188: the fixed sleep before the next attempt.
RetrySleep ==
    /\ pc = "retry_sleep"
    /\ slept' = request_retry_wait_secs
    /\ resp' = NoResponse
    /\ pc' = "get"
    /\ UNCHANGED <<config, ri, crawl_vars, interrupted, sig_in_crawl, url, tries, rl_tries,
                   ratelimit_wait_secs, disk,
                   outcomes, failed, exit_status, signals, sig_lost, returned, resumed>>

\* _save_json, line 37, called at line 159, 163 or 167.
SaveOpen ==
    /\ pc = "save"
    /\ files' = Open(files, SavePath(url))
    /\ pc' = "dump"
    /\ UNCHANGED <<config, ri, crawl_vars, interrupted, sig_in_crawl, get_vars, slept, written,
                   outcomes, failed, exit_status, signals, sig_lost, returned, resumed>>

\* SaveDump with line 168 counting an issue only when its file is new.
SaveDumpDistinct ==
    /\ pc = "dump"
    /\ files' = Dump(files, SavePath(url), SaveObj(url))
    /\ written' = written \cup {SavePath(url)}
    /\ log' = IF url.kind = "pulls" THEN log
              ELSE Append(log, <<"write", SavePath(url)>>)
    /\ num_pulls' = IF url.kind = "pull" THEN num_pulls + 1 ELSE num_pulls
    /\ num_issues' = IF url.kind = "issue" /\ SavePath(url) \notin written
                     THEN num_issues + 1 ELSE num_issues
    /\ Advance(pulls_issue_numbers, pi, ii)
    /\ UNCHANGED <<config, ri, page, pulls, pulls_issue_numbers, seen, pages_fetched,
                   interrupted, sig_in_crawl, resp, slept, outcomes, failed, exit_status, signals, sig_lost, returned, resumed>>

\* _save_json, line 38, then the crawl up to its next _get: lines 160-161
\* after a page, 164-166 after a pull, 168 and 165/160 after an issue.
SaveDump ==
    /\ pc = "dump"
    /\ files' = Dump(files, SavePath(url), SaveObj(url))
    /\ written' = written \cup {SavePath(url)}
    /\ log' = IF url.kind = "pulls" THEN log
              ELSE Append(log, <<"write", SavePath(url)>>)
    /\ num_pulls' = IF url.kind = "pull" THEN num_pulls + 1 ELSE num_pulls
    /\ num_issues' = IF url.kind = "issue" THEN num_issues + 1 ELSE num_issues
    /\ Advance(pulls_issue_numbers, pi, ii)
    /\ UNCHANGED <<config, ri, page, pulls, pulls_issue_numbers, seen, pages_fetched,
                   interrupted, sig_in_crawl, resp, slept, outcomes, failed, exit_status, signals, sig_lost, returned, resumed>>

\* Lines 169-175 with page += 2 at line 175.
PageDoneSkip ==
    /\ pc = "page_done"
    /\ IF Len(pulls) < per_page
       THEN /\ EndCrawl("finished")
            /\ UNCHANGED page
       ELSE /\ page' = page + 2
            /\ pc' = "loop"
            /\ UNCHANGED outcomes
    /\ UNCHANGED <<config, ri, num_issues, num_pulls, pulls, pulls_issue_numbers,
                   pi, ii, seen, pages_fetched, log, interrupted, sig_in_crawl, get_vars, slept, disk, failed,
                   exit_status, signals, sig_lost, returned, resumed>>

\* Lines 169-175 without the page += 1 of line 175.
PageDoneSamePage ==
    /\ pc = "page_done"
    /\ IF Len(pulls) < per_page
       THEN /\ EndCrawl("finished")
            /\ UNCHANGED page
       ELSE /\ page' = page
            /\ pc' = "loop"
            /\ UNCHANGED outcomes
    /\ UNCHANGED <<config, ri, num_issues, num_pulls, pulls, pulls_issue_numbers,
                   pi, ii, seen, pages_fetched, log, interrupted, sig_in_crawl, get_vars, slept, disk, failed,
                   exit_status, signals, sig_lost, returned, resumed>>

\* Lines 169-175 with "<=" for "<" at line 171.
PageDoneAtMost ==
    /\ pc = "page_done"
    /\ IF Len(pulls) <= per_page
       THEN /\ EndCrawl("finished")
            /\ UNCHANGED page
       ELSE /\ page' = page + 1
            /\ pc' = "loop"
            /\ UNCHANGED outcomes
    /\ UNCHANGED <<config, ri, num_issues, num_pulls, pulls, pulls_issue_numbers,
                   pi, ii, seen, pages_fetched, log, interrupted, sig_in_crawl, get_vars, slept, disk, failed,
                   exit_status, signals, sig_lost, returned, resumed>>

\* Lines 169-175: the page is finished.
PageDone ==
    /\ pc = "page_done"
    /\ IF Len(pulls) < per_page
       THEN /\ EndCrawl("finished")
            /\ UNCHANGED page
       ELSE /\ page' = page + 1
            /\ pc' = "loop"
            /\ UNCHANGED outcomes
    /\ UNCHANGED <<config, ri, num_issues, num_pulls, pulls, pulls_issue_numbers,
                   pi, ii, seen, pages_fetched, log, interrupted, sig_in_crawl, get_vars, slept, disk, failed,
                   exit_status, signals, sig_lost, returned, resumed>>

\* The user runs the program again after a graceful stop, on the repository
\* whose crawl was stopped, with --start-page set to the page after the last
\* one finished: a new process over the same output tree.
Resume ==
    /\ pc = "done"
    /\ resumed = None
    /\ outcomes # <<>> /\ outcomes[Len(outcomes)] = "stopped"
    /\ resumed' = Some(start_page)
    /\ repos' = <<this_repo>>
    /\ start_page' = page
    /\ pc' = "main"
    /\ ri' = 0
    /\ page' = 0 /\ num_issues' = 0 /\ num_pulls' = 0
    /\ interrupted' = FALSE
    /\ pulls' = <<>> /\ pulls_issue_numbers' = <<>> /\ pi' = 0 /\ ii' = 0
    /\ url' = NoUrl /\ tries' = 0 /\ rl_tries' = 0 /\ ratelimit_wait_secs' = 0
    /\ slept' = 0
    /\ resp' = NoResponse
    /\ returned' = "none"
    /\ written' = {}
    /\ seen' = <<>>
    /\ pages_fetched' = <<>>
    /\ log' = <<>>
    /\ sig_in_crawl' = FALSE
    /\ sig_lost' = FALSE
    /\ outcomes' = <<>>
    /\ failed' = NoUrl
    /\ exit_status' = None
    /\ UNCHANGED <<server, per_page, save_pull_pages, max_request_tries,
                   request_retry_wait_secs, files, signals>>

Next ==
    \/ Resume
    \/ sigint_handler
    \/ Main
    \/ CrawlSetup
    \/ LoopCheck
    \/ Request
    \/ RateLimitSleep
    \/ RetrySleep
    \/ SaveOpen
    \/ SaveDump
    \/ PageDone

Spec == Init /\ [][Next]_vars

TypeOK ==
    /\ pc \in {"main", "setup", "loop", "get", "rl_sleep", "retry_sleep",
               "save", "dump", "page_done", "done", "exited"}
    /\ tries \in 0..MaxTries
    /\ slept \in 0..(MaxResetLead + MaxRetryWait + 1)

(***************************************************************************)
(* Link extraction on its own: lines 152-157 of crawl on a page of one     *)
(* pull summary with any body of Bodies(MaxSegs), page-saving on.          *)
(***************************************************************************)
ExtractInit ==
    /\ repos \in { <<n>> : n \in {"r1", "r2", "owner/repo"} }
    /\ server = [n \in {repos[1]} |-> <<>>]
    /\ start_page = 1
    /\ per_page = 1
    /\ save_pull_pages = TRUE
    /\ max_request_tries = 1
    /\ request_retry_wait_secs = 0
    /\ pc = "extract"
    /\ ri = 1
    /\ page = 1 /\ num_issues = 0 /\ num_pulls = 0
    /\ interrupted = FALSE
    /\ pulls \in { <<[number |-> 1, merged_at |-> Some(1), body |-> b]>> :
                     b \in Bodies(MaxSegs) }
    /\ pulls_issue_numbers = <<>> /\ pi = 0 /\ ii = 0
    /\ url = NoUrl /\ tries = 0 /\ rl_tries = 0 /\ ratelimit_wait_secs = 0
    /\ slept = 0
    /\ resp = NoResponse
    /\ returned = "none"
    /\ files = [q \in {} |-> Truncated]
    /\ written = {}
    /\ seen = <<>>
    /\ pages_fetched = <<>>
    /\ log = <<>>
    /\ sig_in_crawl = FALSE
    /\ sig_lost = FALSE
    /\ outcomes = <<>>
    /\ failed = NoUrl
    /\ exit_status = None
    /\ signals = 0
    /\ resumed = None

\* Lines 152-157: each item of the page gets its linked_issue_numbers.
Extract ==
    /\ pc = "extract"
    /\ pulls' = Annotated(this_repo, pulls)
    /\ pc' = "extracted"
    /\ UNCHANGED <<config, ri, page, num_issues, num_pulls, pulls_issue_numbers,
                   pi, ii, seen, pages_fetched, log, interrupted, sig_in_crawl,
                   sig_lost, get_vars, slept, disk, outcomes, failed,
                   exit_status, signals, returned, resumed>>

ExtractNext == Extract

ExtractSpec == ExtractInit /\ [][ExtractNext]_vars

(***************************************************************************)
(* One call of _get on its own: the request of the first page of a crawl,  *)
(* from the call of line 150 until _get returns or raises.  A running      *)
(* process goes on to its next statement and requests.get and time.sleep   *)
(* come back: each step of the call is weakly fair.                        *)
(***************************************************************************)
GetInit ==
    /\ repos = <<"r1">>
    /\ server \in [ {"r1"} -> PullLists(MaxPulls) ]
    /\ start_page \in 1..MaxStartPage
    /\ per_page \in 1..MaxPerPage
    /\ save_pull_pages \in BOOLEAN
    /\ max_request_tries \in 1..MaxTries
    /\ request_retry_wait_secs \in 0..MaxRetryWait
    /\ pc = "get"
    /\ ri = 1
    /\ page = start_page /\ num_issues = 0 /\ num_pulls = 0
    /\ interrupted = FALSE
    /\ pulls = <<>> /\ pulls_issue_numbers = <<>> /\ pi = 0 /\ ii = 0
    /\ url = PullsUrl(start_page)
    /\ tries = 0 /\ rl_tries = 0 /\ ratelimit_wait_secs = 0
    /\ slept = 0
    /\ resp = NoResponse
    /\ returned = "none"
    /\ files = [q \in {} |-> Truncated]
    /\ written = {}
    /\ seen = <<>>
    /\ pages_fetched = <<>>
    /\ log = <<>>
    /\ sig_in_crawl = FALSE
    /\ sig_lost = FALSE
    /\ outcomes = <<>>
    /\ failed = NoUrl
    /\ exit_status = None
    /\ signals = 0
    /\ resumed = None

GetNext ==
    \/ Request
    \/ RateLimitSleep
    \/ RetrySleep

GetFairSpec ==
    /\ GetInit /\ [][GetNext]_vars
    /\ WF_vars(Request) /\ WF_vars(RateLimitSleep) /\ WF_vars(RetrySleep)

(***************************************************************************)
(* The files of one uninterrupted crawl, page by page: lines 149-175 run   *)
(* to the end with every request answered.                                 *)
(***************************************************************************)
RECURSIVE DumpIssues(_, _, _, _)
\* Lines 165-167 from issue i of the list on.
DumpIssues(f, rp, issue_numbers, i) ==
    IF i > Len(issue_numbers) THEN f
    ELSE DumpIssues(Dump(f, _issue_path_template(rp, issue_numbers[i]),
                         IssueDoc(issue_numbers[i])),
                    rp, issue_numbers, i + 1)

RECURSIVE DumpPulls(_, _, _, _)
\* Lines 160-167 from entry j of the dict on.
DumpPulls(f, rp, d, j) ==
    IF j > Len(d) THEN f
    ELSE DumpPulls(DumpIssues(Dump(f, _pull_path_template(rp, d[j][1]),
                                   PullDoc(d[j][1], d[j][2])),
                              rp, d[j][2], 1),
                   rp, d, j + 1)

RECURSIVE CrawlFrom(_, _, _)
\* The while loop of line 149 from page p on, never interrupted.
CrawlFrom(f, rp, p) ==
    LET got == PullsPage(server[rp], per_page, p)
        f1 == IF save_pull_pages
              THEN Dump(f, _pulls_path_template(rp, p), PageDoc(Annotated(rp, got)))
              ELSE f
        f2 == DumpPulls(f1, rp, Filter(rp, got, 1, <<>>), 1)
    IN  IF Len(got) < per_page THEN f2 ELSE CrawlFrom(f2, rp, p + 1)

\* The files of repository rp in the output tree f.
RepoFiles(f, rp) == [q \in {x \in DOMAIN f : x.repo = rp} |-> f[q]]

(***************************************************************************)
(* Properties.                                                             *)
(***************************************************************************)
Last(q) == q[Len(q)]

\* crawl has returned (line 174, or the while test of line 149 failing)
\* and the next crawl has not been set up.
Returned ==
    /\ pc \in {"main", "done"}
    /\ outcomes # <<>>
    /\ Last(outcomes) \in {"finished", "stopped"}

\* A summary the spec calls qualifying: merged, and its body yields at
\* least one linked issue number.
MergedAndLinked(p) ==
    p.merged_at # None /\ _extract_linked_issue_numbers(p.body, this_repo) # <<>>

\* C1: when crawl returns without raising, pull-<number>.json has been
\* written by this crawl for exactly the fetched summaries that are merged
\* and link an issue; and at no time is a pull detail requested or written
\* for a summary that is not.
C1_PersistedIffQualifies ==
    /\ Returned =>
          \A i \in 1..Len(seen) :
             (_pull_path_template(this_repo, seen[i].number) \in written)
                <=> MergedAndLinked(seen[i])
    /\ (InCrawl /\ pc # "setup") =>
          /\ \A q \in written :
                q.kind = "pull" =>
                   \E i \in 1..Len(seen) :
                      seen[i].number = q.n /\ MergedAndLinked(seen[i])
          /\ (pc \in {"get", "rl_sleep", "retry_sleep", "save", "dump"}
                /\ url.kind = "pull") =>
                   \E i \in 1..Len(seen) :
                      seen[i].number = url.n /\ MergedAndLinked(seen[i])

\* C1 witness: a crawl has returned having fetched a summary it persisted
\* and a summary it did not.
C1_Witness ==
    /\ Returned
    /\ \E i, j \in 1..Len(seen) :
          /\ _pull_path_template(this_repo, seen[i].number) \in written
          /\ _pull_path_template(this_repo, seen[j].number) \notin written
          /\ seen[j].merged_at # None

\* C2 as first stated: a crawl that returns has just fetched a page of
\* fewer than per_page items, and never goes on after such a page.
C2_StopsOnlyOnShortPage ==
    /\ Returned => (pages_fetched # <<>> /\ Len(pulls) < per_page)
    /\ (pc = "loop" /\ pages_fetched # <<>>) => Len(pulls) = per_page

\* C2, amended: a crawl that returns has just fetched a page of fewer than
\* per_page items or has the interrupted flag set (graceful stop at the
\* page boundary); it never goes on to another page after a page of fewer
\* than per_page items.
C2_StopsOnShortPageOrInterrupt ==
    /\ Returned => (pages_fetched # <<>> /\ Len(pulls) < per_page) \/ interrupted
    /\ (pc = "loop" /\ pages_fetched # <<>>) => Len(pulls) = per_page

\* C2 witness: a crawl stopped by the flag after a page of per_page items.
C2_Witness ==
    /\ Returned
    /\ interrupted
    /\ pages_fetched # <<>>
    /\ Len(pulls) = per_page

\* C3: a crawl stopped gracefully, then run again from the page after the
\* last one finished and to the end, leaves the repository's files exactly
\* as one uninterrupted crawl from the first start page leaves them.
C3_ResumeReproducesFiles ==
    (pc = "done" /\ resumed # None /\ outcomes = <<"finished">>) =>
        RepoFiles(files, this_repo)
           = CrawlFrom([q \in {} |-> Truncated], this_repo, resumed[1])

\* C3 witness: the resumed run has ended, both runs having written pulls.
C3_Witness ==
    /\ pc = "done" /\ resumed # None /\ outcomes = <<"finished">>
    /\ start_page > resumed[1]
    /\ \E q \in written : q.kind = "pull"
    /\ \E q \in DOMAIN files \ written : q.kind = "pull" /\ q.repo = this_repo

\* C4: once a stop signal has been delivered during a crawl, the crawl goes
\* on to no further page: it never starts the request of another page when
\* it has already fetched one.
C4_NoFurtherPageAfterSignal ==
    [][ (sig_in_crawl /\ pages_fetched # <<>> /\ pc = "loop") => pc' # "get" ]_vars

\* C5 as first stated: whenever two stop signals have been delivered to
\* the process, it has terminated with exit status 2.  (Stated for the runs
\* in which line 148 has not cleared a flag set inside crawl.)
C5_TwoSignalsExit ==
    (resumed = None /\ ~sig_lost /\ signals >= 2) =>
        (pc = "exited" /\ exit_status = Some(2))

\* C5, amended: a stop signal that follows another and finds the flag still
\* set terminates the process with exit status 2, and no document is
\* written from then on.
C5_SecondSignalWithFlagSetExits ==
    [][ /\ (signals' = signals + 1 /\ signals >= 1 /\ interrupted) =>
             (exit_status' = Some(2) /\ pc' = "exited" /\ files' = files)
        /\ (exit_status = Some(2) => (files' = files /\ written' = written))
      ]_vars

\* C5 witness: the process was forced to exit with a qualifying pull of the
\* page in progress not yet written.
C5_Witness ==
    /\ pc = "exited" /\ exit_status = Some(2)
    /\ signals >= 2
    /\ \E j \in 1..Len(pulls_issue_numbers) :
          _pull_path_template(this_repo, pulls_issue_numbers[j][1]) \notin written

\* C6: a stop signal delivered while the flag is set ends the process at
\* once with exit status 2: the step of the handler issues no request,
\* writes no file and is not turned into a retry or into the error of one
\* repository, and no step follows it.
C6_ForcedExitIsImmediate ==
    [][ /\ (signals' # signals /\ interrupted) =>
             /\ pc' = "exited"
             /\ exit_status' = Some(2)
             /\ UNCHANGED <<files, written, url, tries, resp, slept, outcomes,
                            failed, ri, pages_fetched>>
        /\ pc # "exited"
      ]_vars

\* C6 witness: the forced exit happened inside _get's retry loop, after a
\* failed attempt.
C6_Witness ==
    /\ pc = "exited" /\ exit_status = Some(2)
    /\ resp # NoResponse
    /\ tries < max_request_tries

\* C7: get raises exactly when its count of ordinary failed attempts (the
\* failed attempts that did not meet an exhausted quota) reaches
\* max_request_tries: while it is attempting or sleeping that count is
\* below max_request_tries, and when it has raised the count equals it.
C7_RaisesAtMaxTries ==
    /\ pc \in {"get", "rl_sleep", "retry_sleep"} =>
          tries - rl_tries < max_request_tries
    /\ failed # NoUrl => tries - rl_tries = max_request_tries

\* C8 as first stated: when get has raised for a URL, no output file for
\* that request's target exists.
C8_NoFileForFailedRequest ==
    (pc = "main" /\ failed # NoUrl) => SavePath(failed) \notin DOMAIN files

\* C8, amended: when get has raised for a URL, the failed request has
\* written nothing: no file exists for a failed pull or page request, and
\* the file of a failed issue request, if an earlier request for the same
\* issue wrote it, holds that complete issue document.
C8_FailedRequestWritesNothing ==
    (pc = "main" /\ failed # NoUrl) =>
        /\ failed.kind \in {"pulls", "pull"} => SavePath(failed) \notin DOMAIN files
        /\ (failed.kind = "issue" /\ SavePath(failed) \in DOMAIN files) =>
               files[SavePath(failed)] = IssueDoc(failed.n)

\* C8 witness: get has raised for a pull after an earlier pull of the crawl
\* was written.
C8_Witness ==
    /\ pc = "main" /\ failed # NoUrl
    /\ failed.kind = "pull"
    /\ \E q \in written : q.kind = "pull"

\* C9: an attempt that fails on a response carrying remaining quota zero
\* and a reset timestamp leaves the try counter of the get unchanged.
C9_ExhaustedAttemptNotCounted ==
    [][ (pc = "get" /\ FailedExhausted(resp')) => tries' = tries ]_vars

\* C10: after a failed attempt whose response carries remaining quota zero
\* and reset T, the same request is issued again (get does not raise), and
\* not before reset - now + 1 seconds have been slept.
C10_ReissuedAfterReset ==
    [][ /\ (pc = "get" /\ FailedExhausted(resp')) =>
             pc' \in {"rl_sleep", "retry_sleep"}
        /\ (pc \in {"rl_sleep", "retry_sleep"} /\ FailedExhausted(resp)
               /\ pc' = "get") =>
             (url' = url /\ slept' >= resp.headers.reset[1] + 1)
      ]_vars

\* C11: the step in which a crawl ends with TooManyRequestFailures writes no
\* file and returns to main's loop; from there nothing is requested or
\* written for that repository, the next step of main starts the crawl of
\* the repository that follows it in args.repos (or ends main after the
\* last one), and main ends only when every repository has been crawled.
C11_FatalErrorEndsOnlyThatCrawl ==
    [][ /\ outcomes' = Append(outcomes, "raised") =>
             (pc' = "main" /\ files' = files /\ UNCHANGED <<ri, exit_status>>)
        /\ (pc = "main" /\ outcomes # <<>> /\ Last(outcomes) = "raised") =>
             /\ files' = files /\ url' = url
             /\ pc' \in {"main", "setup", "done", "exited"}
             /\ pc' = "main" => signals' = signals + 1
             /\ pc' = "exited" => signals' = signals + 1
             /\ pc' = "setup" => (ri < Len(repos) /\ ri' = ri + 1)
             /\ pc' = "done" => ri = Len(repos)
        /\ pc' = "done" => (ri' = Len(repos) /\ Len(outcomes') = Len(repos))
      ]_vars

\* C11 witness: the crawl of the first repository raised and the second
\* repository's crawl is about to write a file.
C11_Witness ==
    /\ ri = 2
    /\ outcomes = <<"raised">>
    /\ pc = "save"

\* C12 as first stated: for repository owner/repo, extraction on the body
\* "<kw> #12 and owner/repo#34, see Owner/Repo/issues/56" yields
\* <<12, 34, 56>> for every case variant kw of "fixes".
C12_ExampleYieldsThree ==
    (pc = "extracted" /\ this_repo = "owner/repo"
        /\ pulls[1].body \in ExampleBodies) =>
            pulls[1].linked_issue_numbers = <<12, 34, 56>>

\* C12, amended: for repository owner/repo, extraction on that body yields
\* <<12>>, the only reference that follows a closing keyword, for every
\* case variant of the keyword.
C12_ExampleYieldsFirstOnly ==
    (pc = "extracted" /\ this_repo = "owner/repo"
        /\ pulls[1].body \in ExampleBodies) =>
            pulls[1].linked_issue_numbers = <<12>>

\* C12 witness: the example body with the keyword in upper case has been
\* through extraction for owner/repo.
C12_Witness ==
    /\ pc = "extracted"
    /\ this_repo = "owner/repo"
    /\ pulls[1].body = ExampleBody("FIXES")

\* A closing reference to an issue of repo starts at item i of body b:
\* keyword, whitespace, one of the three forms, the number.
ClosingRefAt(repo, b, i) ==
    /\ i + 3 <= Len(b)
    /\ b[i].t = "word" /\ Lower(b[i].s) \in Keywords
    /\ b[i + 1].t = "ws"
    /\ b[i + 2].t = "hash" \/ (b[i + 2].t \in {"url", "short"} /\ b[i + 2].s = repo)
    /\ b[i + 3].t = "num"

\* The numbers of the closing references of b, by position in b.
ExpectedRefs(repo, b) ==
    LET P == { i \in 1..Len(b) : ClosingRefAt(repo, b, i) }
    IN  [ k \in 1..Cardinality(P) |->
            b[(CHOOSE i \in P : Cardinality({ j \in P : j < i }) = k - 1) + 3].n ]

\* C13: the extracted sequence has one entry per closing reference of the
\* body, in the order the references occur, repeated numbers kept and
\* nothing sorted; a null body gives the empty sequence.
C13_OneEntryPerReferenceInOrder ==
    pc = "extracted" =>
        pulls[1].linked_issue_numbers =
            IF pulls[1].body = None THEN <<>>
            ELSE ExpectedRefs(this_repo, pulls[1].body[1])

\* C13 witness: an extracted sequence that is not sorted and holds a number
\* twice.
C13_Witness ==
    /\ pc = "extracted"
    /\ LET out == pulls[1].linked_issue_numbers
       IN  /\ Len(out) = 3
           /\ out[1] > out[2]
           /\ out[3] = out[1]

\* C14: the pages a crawl has fetched are start_page, start_page + 1, ...
\* in this order, without gap or repetition; inside a crawl the page counter
\* changes only when a page is finished, and then by exactly 1.
C14_PagesConsecutive ==
    [][ /\ \A k \in 1..Len(pages_fetched') :
              pages_fetched'[k] = start_page' + k - 1
        /\ pc \in {"loop", "get", "rl_sleep", "retry_sleep", "save", "dump",
                   "page_done"} =>
              (page' = page \/ (pc = "page_done" /\ page' = page + 1))
      ]_vars

\* C14 witness: two pages fetched and the request of the third being
\* retried after a failure.
C14_Witness ==
    /\ Len(pages_fetched) = 2
    /\ pc = "retry_sleep"
    /\ url = PullsUrl(start_page + 2)

\* C15: a step of _get either stays inside the call (a sleep before the
\* same URL is requested again), or raises TooManyRequestFailures for its
\* URL, or returns; and what it returns is always the parsed JSON of a
\* response with a successful status, a body that parses and no message
\* field.
C15_ReturnsJsonOrRaises ==
    [][ /\ returned' \in {"none", "ok"}
        /\ (pc = "get" /\ signals' = signals) =>
              \/ /\ pc' \in {"rl_sleep", "retry_sleep"}
                 /\ UNCHANGED <<url, crawl_vars, returned, disk, outcomes>>
              \/ /\ outcomes' = Append(outcomes, "raised")
                 /\ failed' = url
                 /\ UNCHANGED <<crawl_vars, returned, disk>>
              \/ /\ returned' = "ok"
                 /\ resp' = NoResponse
                 /\ UNCHANGED <<outcomes, failed, disk>>
                 /\ IF url.kind = "pulls"
                    THEN pulls' = PullsPage(server[this_repo], per_page, page)
                    ELSE pc' = "save" /\ url' = url
      ]_vars

\* C15 witness: both outcomes in one run: a _get of the first repository's
\* crawl raised, and a _get of the second's has returned a pull.
C15_Witness ==
    /\ pc = "save"
    /\ url.kind = "pull"
    /\ returned = "ok"
    /\ outcomes = <<"raised">>

RECURSIVE IssueLog(_, _)
\* What is to be fetched and written for the issues ns[i..] of one pull.
IssueLog(ns, i) ==
    IF i > Len(ns) THEN <<>>
    ELSE <<<<"got", IssueUrl(ns[i])>>,
           <<"write", _issue_path_template(this_repo, ns[i])>>>>
         \o IssueLog(ns, i + 1)

RECURSIVE PageLog(_, _)
\* What is to be fetched and written for the items ps[j..] of a page: for
\* each merged item that links issues, in page order, the pull and then
\* each entry of its list.
PageLog(ps, j) ==
    IF j > Len(ps) THEN <<>>
    ELSE (IF MergedAndLinked(ps[j])
          THEN <<<<"got", PullUrl(ps[j].number)>>,
                 <<"write", _pull_path_template(this_repo, ps[j].number)>>>>
               \o IssueLog(_extract_linked_issue_numbers(ps[j].body, this_repo), 1)
          ELSE <<>>)
         \o PageLog(ps, j + 1)

\* C16: what the crawl has fetched and written for the page in progress is
\* always a prefix of: pull, its file, then its issues one by one in list
\* order, each fetched and written, for the qualifying pulls in page order;
\* the request outstanding is the next one of that list (so a pull's file is
\* written before any of its issues is requested, and an issue is requested
\* once per list entry), each written pull file holds the pull with its
\* list, and a finished page has the whole list done.
C16_DetailsInOrder ==
    LET E == PageLog(pulls, 1) IN
    pc \in {"loop", "get", "rl_sleep", "retry_sleep", "save", "dump", "page_done"} =>
        /\ Len(log) <= Len(E) /\ log = SubSeq(E, 1, Len(log))
        /\ (pc \in {"loop", "page_done"}
               \/ (pc \in {"get", "rl_sleep", "retry_sleep"} /\ url.kind = "pulls")) =>
              log = E
        /\ (pc \in {"save", "dump"} /\ url.kind = "pulls") => log = <<>>
        /\ (pc \in {"get", "rl_sleep", "retry_sleep"} /\ url.kind \in {"pull", "issue"}) =>
              (Len(log) < Len(E) /\ E[Len(log) + 1] = <<"got", url>>)
        /\ (pc \in {"save", "dump"} /\ url.kind \in {"pull", "issue"}) =>
              /\ Last(log) = <<"got", url>>
              /\ E[Len(log) + 1] = <<"write", SavePath(url)>>
        /\ \A j \in 1..Len(pulls) :
              (\E k \in 1..Len(log) :
                   log[k] = <<"write", _pull_path_template(this_repo, pulls[j].number)>>) =>
                 files[_pull_path_template(this_repo, pulls[j].number)]
                    = PullDoc(pulls[j].number,
                              _extract_linked_issue_numbers(pulls[j].body, this_repo))

\* C16 witness: a page is finished for which the same issue was fetched
\* and written for two pulls.
C16_Witness ==
    /\ pc = "page_done"
    /\ \E k1, k2 \in 1..Len(log) :
          /\ k1 < k2
          /\ log[k1] = <<"got", IssueUrl(1)>>
          /\ log[k2] = <<"got", IssueUrl(1)>>

\* The page document of the page fetched last is on disk, written by this
\* crawl, and holds every item of the page with its extracted list.
PageSaved ==
    LET q == _pulls_path_template(this_repo, Last(pages_fetched)) IN
    /\ q \in written
    /\ files[q].kind = "pulls-page"
    /\ Len(files[q].items) = Len(pulls)
    /\ \A j \in 1..Len(pulls) :
          /\ files[q].items[j].number = pulls[j].number
          /\ files[q].items[j].merged_at = pulls[j].merged_at
          /\ files[q].items[j].body = pulls[j].body
          /\ files[q].items[j].linked_issue_numbers
                = _extract_linked_issue_numbers(pulls[j].body, this_repo)

\* C17: with page-saving on, once a page is fetched its document is written,
\* complete, before anything else is requested (only the two steps of that
\* _save_json call come before), and every page fetched earlier in the
\* crawl has its document; with page-saving off no pulls-page file exists.
C17_PageSavedBeforeDetails ==
    /\ (save_pull_pages /\ pages_fetched # <<>>
          /\ pc \in {"loop", "get", "rl_sleep", "retry_sleep", "save", "dump",
                     "page_done"}
          /\ ~(pc \in {"save", "dump"} /\ url.kind = "pulls")) =>
             /\ PageSaved
             /\ \A k \in 1..Len(pages_fetched) :
                   _pulls_path_template(this_repo, pages_fetched[k]) \in written
    /\ (pc \in {"save", "dump"} /\ url.kind = "pulls") =>
             (save_pull_pages /\ log = <<>>)
    /\ ~save_pull_pages => \A q \in DOMAIN files : q.kind # "pulls-page"

\* C17 witness: a pull detail is being requested for a page of two items,
\* one of them not qualifying, whose document has been written.
C17_Witness ==
    /\ save_pull_pages
    /\ pc = "get" /\ url.kind = "pull"
    /\ Len(pulls) = 2
    /\ \E j \in 1..2 : ~MergedAndLinked(pulls[j])
    /\ _pulls_path_template(this_repo, page) \in written

\* _get has been called and has neither returned nor raised.
InCall == pc \in {"get", "rl_sleep", "retry_sleep"}

\* C18: a call of _get ends (returns or raises) if from some point on no
\* attempt of it meets an exhausted quota; and it does not end while every
\* failed attempt meets one: it raises only after a failed attempt that did
\* not.
C18_EndsUnlessExhaustedForever ==
    /\ (<>[](~FailedExhausted(resp))) => <>(~InCall)
    /\ [](failed # NoUrl => rl_tries < tries)

\* The crawl is at a page boundary (the while test of line 149, or a page
\* just finished) or has returned without raising.
AtPageBoundary == pc \in {"loop", "page_done"} \/ Returned

\* The pull file q has, for each number of its list, the issue's file.
Complete(q) ==
    \A k \in 1..Len(files[q].linked) :
       LET m == _issue_path_template(q.repo, files[q].linked[k])
       IN  m \in DOMAIN files /\ files[m] = IssueDoc(files[q].linked[k])

\* C19 as first stated: at every page boundary and whenever crawl has
\* returned, every pull file of the output tree has the files of all the
\* issues of its list.  (Stated for the states in which no attempt that
\* met an exhausted quota has been counted by the last _get.)
C19_EveryPullComplete ==
    (AtPageBoundary /\ rl_tries = 0) =>
        \A q \in DOMAIN files : q.kind = "pull" => Complete(q)

\* C19, amended: at every page boundary and whenever crawl has returned,
\* every pull file in the directory of the repository being crawled has the
\* files of all the issues of its list.
C19_PullsOfThisRepoComplete ==
    AtPageBoundary =>
        \A q \in DOMAIN files :
           (q.kind = "pull" /\ q.repo = this_repo) => Complete(q)

\* C19 witness: a page of the second repository is finished with a pull
\* written, while the first repository's crawl, which raised, left a pull
\* file without its issue.
C19_Witness ==
    /\ pc = "page_done"
    /\ ri = 2
    /\ outcomes = <<"raised">>
    /\ \E q \in written : q.kind = "pull"
    /\ \E q \in DOMAIN files : q.kind = "pull" /\ ~Complete(q)

\* C20: crawl's first step clears the flag and sets the page to start_page;
\* a flag found set inside a crawl was set by a signal delivered during that
\* crawl, and a crawl stops on the flag only then; after a crawl stopped on
\* the flag, main's next step starts the crawl of the next repository (or
\* ends main after the last one).
C20_FlagClearedPerCrawl ==
    [][ /\ (pc = "setup" /\ signals' = signals) =>
              (pc' = "loop" /\ ~interrupted' /\ page' = start_page)
        /\ (interrupted' /\ pc' \in {"loop", "get", "rl_sleep", "retry_sleep",
                                      "save", "dump", "page_done"}) =>
              sig_in_crawl'
        /\ outcomes' = Append(outcomes, "stopped") => sig_in_crawl
        /\ (pc = "main" /\ outcomes # <<>> /\ Last(outcomes) = "stopped"
               /\ signals' = signals) =>
              IF ri < Len(repos)
              THEN pc' = "setup" /\ ri' = ri + 1
              ELSE pc' = "done"
      ]_vars

\* C20 witness: the first repository's crawl was stopped by a signal and
\* the second repository's crawl is requesting its first page, the flag
\* cleared.
C20_Witness ==
    /\ ri = 2
    /\ outcomes = <<"stopped">>
    /\ signals = 1
    /\ ~interrupted
    /\ pc = "get" /\ url = PullsUrl(start_page)

\* The pull and issue files written by the crawl in progress (lines 163, 167).
PullFilesWritten == { q \in written : q.kind = "pull" }
IssueFilesWritten == { q \in written : q.kind = "issue" }

RECURSIVE SumLinked(_)
\* The sum, over the pull files of S, of the lengths of their
\* linked_issue_numbers lists (line 162).
SumLinked(S) ==
    IF S = {} THEN 0
    ELSE LET q == CHOOSE x \in S : TRUE
         IN Len(files[q].linked) + SumLinked(S \ {q})

\* crawl has returned at line 174, having printed the totals of line 173.
FinishedAtLastPage ==
    /\ pc \in {"main", "done"}
    /\ outcomes # <<>>
    /\ Last(outcomes) = "finished"

\* C21: when crawl has returned at the last page, num_pulls is the number
\* of pull files this crawl wrote and num_issues is the sum of the lengths
\* of the linked_issue_numbers lists of those pull files, which is never
\* less than the number of issue files this crawl wrote.
C21_TotalsCountWrites ==
    FinishedAtLastPage =>
        /\ num_pulls = Cardinality(PullFilesWritten)
        /\ num_issues = SumLinked(PullFilesWritten)
        /\ num_issues >= Cardinality(IssueFilesWritten)

\* C21 witness: a crawl has returned at the last page having written two
\* pulls, and its issue total exceeds the number of issue files it wrote.
C21_Witness ==
    /\ FinishedAtLastPage
    /\ num_pulls = 2
    /\ num_issues > Cardinality(IssueFilesWritten)

====
